---- MODULE Spec2Model ----
(***************************************************************************)
(* Model of src/identifier.js: the identifier-issuance routine             *)
(* (get_identifier), its token encipherer (kh), key deriver (Th) and the   *)
(* descrambler of the baked-in constant tables (Ah, Fl).                   *)
(*                                                                         *)
(* Conventions.                                                            *)
(*   - A JavaScript string is a sequence of code points (naturals); a      *)
(*     Buffer / Uint8Array is a sequence of bytes 0..255.  JavaScript      *)
(*     index i is TLA+ index i + 1.                                        *)
(*   - The two library primitives whose internals are not part of the      *)
(*     repository, PBKDF2-HMAC-SHA-256 and the AES-256 block function,     *)
(*     are abstracted: Pbkdf2 is a deterministic mixing function of        *)
(*     (password, salt) to 32 bytes, AesBlock is a keyed permutation of    *)
(*     16-byte blocks.  The CBC chaining, the PKCS#7 padding, the JSON and *)
(*     UTF-8 and base64 and hex conversions are modelled as computed.      *)
(***************************************************************************)
EXTENDS Integers, Sequences, FiniteSets, TLC

\* ------------------------------------------------------------------ bounds

\* Number of get_identifier calls that may be in progress at once.
NCalls == 2

\* Longest index array m drawn for the descrambler on arbitrary tables.
MaxTableLen == 4

\* Longest secret (in code points) scrambled by the forward procedure.
MaxSecretLen == 2

\* --------------------------------------------------------- program constants

\* const Sh = 16: the IV length in bytes (and the AES block size).
Sh == 16

\* H7t(t = 12): the default nonce length in bytes.
NonceLen == 12

\* pbkdf2Sync(..., 100000, 32, "sha256"): derived key length in bytes.
KeyLen == 32

\* pbkdf2Sync(..., 100000, 32, "sha256"): iteration count.
Iterations == 100000

\* The salt table with a slip in one entry of m: index 3 twice, index 1 never.
HrSlip ==
  [ r |-> << 87, 78, 72, 56, 79, 48, 122, 79, 107, 104, 82, 119, 51, 100, 78, 90,
             85, 85, 69, 107, 90, 116, 87, 48, 108, 53, 83, 84, 70, 81, 121, 69 >>,
    m |-> << 27, 26, 25, 22, 24, 21, 17, 12, 30, 19, 20, 14, 31, 8, 18, 10,
             13, 5, 29, 7, 16, 6, 28, 23, 9, 15, 4, 0, 11, 2, 3, 3 >> ]

\* const Hr = { r: [...], m: [...] }: the salt table as written in the source.
HrInitial ==
  [ r |-> << 87, 78, 72, 56, 79, 48, 122, 79, 107, 104, 82, 119, 51, 100, 78, 90,
             85, 85, 69, 107, 90, 116, 87, 48, 108, 53, 83, 84, 70, 81, 121, 69 >>,
    m |-> << 27, 26, 25, 22, 24, 21, 17, 12, 30, 19, 20, 14, 31, 8, 18, 10,
             13, 5, 29, 7, 16, 6, 28, 23, 9, 15, 4, 0, 11, 2, 3, 1 >> ]

\* const jr = { r: [...], m: [...] }: the credential table as written in the source.
jrInitial ==
  [ r |-> << 87, 90, 109, 107, 53, 105, 81, 89, 103, 107, 68, 49, 68, 105, 106, 77,
             49, 106, 53, 78, 77, 78, 106, 106, 61, 77, 89, 51, 66, 79, 86, 89,
             106, 65, 106, 52, 89, 77, 87, 106, 89, 122, 78, 90, 65, 89, 50, 105,
             61, 90, 106, 66, 48, 53, 71, 89, 87, 52, 81, 84, 78, 90, 74, 78,
             103, 50, 70, 79, 51, 50, 50, 77, 122, 108, 84, 81, 120, 90, 89, 89,
             89, 79, 119, 122, 121, 108, 69, 77 >>,
    m |-> << 65, 20, 1, 6, 31, 63, 74, 12, 85, 78, 33, 3, 41, 19, 45, 52,
             75, 21, 23, 16, 56, 36, 5, 71, 87, 68, 72, 15, 18, 32, 82, 8,
             17, 54, 83, 35, 28, 48, 49, 77, 30, 25, 10, 38, 22, 50, 29, 11,
             86, 64, 57, 70, 47, 67, 81, 44, 61, 7, 58, 13, 84, 76, 42, 24,
             46, 37, 62, 80, 27, 51, 73, 34, 69, 39, 53, 2, 79, 60, 26, 0,
             66, 40, 55, 9, 59, 43, 14, 4 >> ]

\* ------------------------------------------------------------ byte helpers

\* An array slot never written (JavaScript's hole / undefined).
Hole == -1

\* The replacement character U+FFFD a lenient UTF-8 decoder emits.
Replacement == 65533

\* Exclusive or of two nibbles, bit by bit.
XorNibble(a, b) ==
  LET bit(x, k) == (x \div k) % 2
      x1(k) == IF bit(a, k) = bit(b, k) THEN 0 ELSE k
  IN x1(1) + x1(2) + x1(4) + x1(8)

\* The nibble table, computed once.
XorTable == [a \in 0..15 |-> [b \in 0..15 |-> XorNibble(a, b)]]

\* TRUE for every value v. The element-wise definitions below open with it so
\* that an argument is evaluated once, not once per element.
Evaluated(v) == v = v

\* Exclusive or of two bytes.
Xor(a, b) == 16 * XorTable[a \div 16][b \div 16] + XorTable[(a % 16)][(b % 16)]

\* Exclusive or of two byte sequences of equal length.
XorBytes(x, y) == IF Evaluated(y) THEN [i \in 1..Len(x) |-> Xor(x[i], y[i])] ELSE << >>

\* Array.prototype.reverse on a sequence.
Reverse(s) == [i \in 1..Len(s) |-> s[Len(s) + 1 - i]]

\* The smaller of two numbers.
Min(a, b) == IF a < b THEN a ELSE b

\* How many loop iterations one level of a chunked loop runs: a loop over a
\* long sequence is run chunk by chunk to keep the evaluation shallow.
Chunk == 16

RECURSIVE Concat(_)
\* The concatenation of a sequence of sequences (Array.prototype.join("")),
\* computed by halves.
Concat(ss) ==
  IF Len(ss) = 0 THEN << >>
  ELSE IF Len(ss) = 1 THEN ss[1]
  ELSE LET mid == Len(ss) \div 2
       IN Concat(SubSeq(ss, 1, mid)) \o Concat(SubSeq(ss, mid + 1, Len(ss)))

\* One lowercase hexadecimal digit as a character code.
HexDigit(d) == IF d < 10 THEN 48 + d ELSE 87 + d

\* Number.prototype.toString(16) of a byte: no leading zero.
ToString16(n) ==
  IF n < 16 THEN << HexDigit(n) >> ELSE << HexDigit(n \div 16), HexDigit(n % 16) >>

RECURSIVE PadStart(_, _, _)
\* String.prototype.padStart(len, ch) for a one-character pad string.
PadStart(s, len, ch) == IF Len(s) >= len THEN s ELSE PadStart(<< ch >> \o s, len, ch)

\* Buffer.prototype.toString("hex"): two lowercase digits per byte.
BufferToHex(b) ==
  Concat([i \in 1..Len(b) |-> << HexDigit(b[i] \div 16), HexDigit(b[i] % 16) >>])

\* ------------------------------------------------------------------ UTF-8

\* The UTF-8 bytes of one code point (a lone surrogate encodes as U+FFFD).
Utf8EncodeOne(c) ==
  IF c < 128 THEN << c >>
  ELSE IF c < 2048 THEN << 192 + (c \div 64), 128 + (c % 64) >>
  ELSE IF c >= 55296 /\ c <= 57343 THEN << 239, 191, 189 >>
  ELSE IF c < 65536 THEN << 224 + (c \div 4096), 128 + ((c \div 64) % 64), 128 + (c % 64) >>
  ELSE << 240 + (c \div 262144), 128 + ((c \div 4096) % 64),
          128 + ((c \div 64) % 64), 128 + (c % 64) >>

\* Buffer.from(string) / cipher.update(string, "utf8"): the UTF-8 bytes of a string.
Utf8Encode(s) == Concat([i \in 1..Len(s) |-> Utf8EncodeOne(s[i])])

\* The decoder's state before the first byte: i is the next byte, cp the code
\* point being assembled, need the continuation bytes still expected, lo..hi
\* the range the next continuation byte must lie in, out the code points
\* emitted so far.
Utf8Start == [i |-> 1, cp |-> 0, need |-> 0, lo |-> 128, hi |-> 191, out |-> << >>]

\* One step of the decoder on byte b[st.i].
Utf8Step(b, st) ==
  LET c == b[st.i]
      emit(x) == [Utf8Start EXCEPT !.i = st.i + 1, !.out = Append(st.out, x)]
      lead(bits, n, lo, hi) ==
        [i |-> st.i + 1, cp |-> bits, need |-> n, lo |-> lo, hi |-> hi, out |-> st.out]
  IN IF st.need = 0
     THEN IF c < 128 THEN emit(c)
          ELSE IF c >= 194 /\ c <= 223 THEN lead(c % 32, 1, 128, 191)
          ELSE IF c >= 224 /\ c <= 239
            THEN lead(c % 16, 2, IF c = 224 THEN 160 ELSE 128, IF c = 237 THEN 159 ELSE 191)
          ELSE IF c >= 240 /\ c <= 244
            THEN lead(c % 8, 3, IF c = 240 THEN 144 ELSE 128, IF c = 244 THEN 143 ELSE 191)
          ELSE emit(Replacement)
     ELSE IF c < st.lo \/ c > st.hi
       THEN \* the byte is not consumed: it starts the next character
            [Utf8Start EXCEPT !.i = st.i, !.out = Append(st.out, Replacement)]
       ELSE IF st.need = 1
         THEN emit(st.cp * 64 + (c % 64))
         ELSE lead(st.cp * 64 + (c % 64), st.need - 1, 128, 191)

RECURSIVE Utf8Loop(_, _, _)
\* The decoder's steps up to byte stop.
Utf8Loop(b, stop, st) == IF st.i > stop THEN st ELSE Utf8Loop(b, stop, Utf8Step(b, st))

RECURSIVE Utf8Chunks(_, _)
\* The decoder's steps to the end of b; a sequence cut short ends in U+FFFD.
Utf8Chunks(b, st) ==
  IF st.i > Len(b)
  THEN IF st.need > 0 THEN Append(st.out, Replacement) ELSE st.out
  ELSE Utf8Chunks(b, Utf8Loop(b, Min(st.i + Chunk - 1, Len(b)), st))

\* Buffer.prototype.toString("utf-8"): lenient decoding, every malformed
\* sequence becomes U+FFFD, nothing throws, a byte order mark is kept.
BufferToUtf8(b) == Utf8Chunks(b, Utf8Start)

\* Whether a byte sequence is well-formed UTF-8 (it decodes without replacement
\* unless it encodes U+FFFD itself).
ValidUtf8(b) == Utf8Encode(BufferToUtf8(b)) = b

\* ----------------------------------------------------------------- base64

\* The value of a base64 character, or Hole when the character is not one:
\* the decoder accepts the standard and the URL-safe alphabet.
Unbase64(c) ==
  IF c >= 65 /\ c <= 90 THEN c - 65
  ELSE IF c >= 97 /\ c <= 122 THEN c - 71
  ELSE IF c >= 48 /\ c <= 57 THEN c + 4
  ELSE IF c = 43 \/ c = 45 THEN 62
  ELSE IF c = 47 \/ c = 95 THEN 63
  ELSE Hole

\* The values of a sequence of base64 characters.
Unbase64All(kept) == [i \in 1..Len(kept) |-> Unbase64(kept[i])]

\* The part of s before its first character c (all of s when it has none).
Before(s, c) ==
  LET stops == SelectSeq([i \in 1..Len(s) |-> i], LAMBDA i : s[i] = c)
  IN IF stops = << >> THEN s ELSE SubSeq(s, 1, stops[1] - 1)

\* The values of the legal characters of s up to the first "=": an illegal
\* character is skipped, "=" stops decoding.
Base64Values(s) == Unbase64All(SelectSeq(Before(s, 61), LAMBDA c : Unbase64(c) # Hole))

\* The bytes of a sequence of 6-bit values: three per full group of four, one
\* for two trailing values, two for three, none for a single one.
Base64Groups(v) ==
  LET full == Len(v) \div 4
      rest == Len(v) % 4
      n == 3 * full + (IF rest >= 2 THEN rest - 1 ELSE 0)
      byte(j) ==
        LET g == 4 * ((j - 1) \div 3)
            k == (j - 1) % 3
        IN IF k = 0 THEN v[g + 1] * 4 + (v[g + 2] \div 16)
           ELSE IF k = 1 THEN (v[g + 2] % 16) * 16 + (v[g + 3] \div 4)
           ELSE (v[g + 3] % 4) * 64 + v[g + 4]
  IN [j \in 1..n |-> byte(j)]

\* Buffer.from(string, "base64"): lenient decoding, nothing throws.
BufferFromBase64(s) == Base64Groups(Base64Values(s))

\* Whether a string is canonical padded base64 over the standard alphabet.
ValidBase64(s) ==
  /\ Len(s) % 4 = 0
  /\ \A i \in 1..Len(s) :
       \/ Unbase64(s[i]) # Hole /\ s[i] # 45 /\ s[i] # 95
       \/ s[i] = 61 /\ i >= Len(s) - 1 /\ i > 1 /\ (i = Len(s) \/ s[Len(s)] = 61)

\* ----------------------------------------------------------- descrambler

\* The loop body t[e[s]] = n[s] (here s is s + 1): n[s] past the end of n is
\* undefined; an index past the end of t grows t with holes; a negative index
\* sets a property, not an element.
AhStep(n, e, s, t) ==
  LET v == IF s <= Len(n) THEN n[s] ELSE Hole
      k == e[s] + 1
      grown == IF k > Len(t) THEN t \o [i \in 1..(k - Len(t)) |-> Hole] ELSE t
  IN IF k >= 1 THEN [grown EXCEPT ![k] = v] ELSE t

RECURSIVE AhLoop(_, _, _, _, _)
\* for (let s = 0; s < e.length; s++) { t[e[s]] = n[s]; }, iterations s..stop.
AhLoop(n, e, s, stop, t) ==
  IF s > stop \/ Len(t) < 0 THEN t ELSE AhLoop(n, e, s + 1, stop, AhStep(n, e, s, t))

RECURSIVE AhChunks(_, _, _, _)
\* The whole loop, from iteration s on.
AhChunks(n, e, s, t) ==
  IF s > Len(e) \/ Len(t) < 0 THEN t
  ELSE AhChunks(n, e, s + Chunk, AhLoop(n, e, s, Min(s + Chunk - 1, Len(e)), t))

\* Ah with the slip of reading through the permutation: t[s] = n[e[s]].
AhGather(n, e) ==
  [s \in 1..Len(n) |-> IF s <= Len(e) /\ e[s] + 1 \in 1..Len(n) THEN n[e[s] + 1] ELSE Hole]

\* function Ah(n, e): t = new Array(n.length), then the loop, then return t.
Ah(n, e) == AhChunks(n, e, 1, [i \in 1..Len(n) |-> Hole])

\* Buffer.from(array): a hole (undefined) becomes 0, a number is taken & 255.
BufferFromArray(t) == [i \in 1..Len(t) |-> IF t[i] = Hole THEN 0 ELSE t[i] % 256]

\* function Fl(n, e): unpermute, read as UTF-8 text, decode that text as
\* base64, reverse the bytes, read them as UTF-8 text.
Fl(n, e) ==
  LET t == Ah(n, e)
      s == BufferToUtf8(BufferFromArray(t))
      o == BufferFromBase64(s)
      i == Reverse(o)
  IN BufferToUtf8(i)

\* ---------------------------------------------------------- JSON.stringify

\* The four lowercase hexadecimal digits of a \uXXXX escape.
Hex4(c) ==
  << HexDigit(c \div 4096), HexDigit((c \div 256) % 16),
     HexDigit((c \div 16) % 16), HexDigit(c % 16) >>

\* JSON.stringify's rendering of one character inside a string literal.
QuoteChar(c) ==
  IF c = 34 THEN << 92, 34 >>
  ELSE IF c = 92 THEN << 92, 92 >>
  ELSE IF c = 8 THEN << 92, 98 >>
  ELSE IF c = 9 THEN << 92, 116 >>
  ELSE IF c = 10 THEN << 92, 110 >>
  ELSE IF c = 12 THEN << 92, 102 >>
  ELSE IF c = 13 THEN << 92, 114 >>
  ELSE IF c < 32 \/ (c >= 55296 /\ c <= 57343) THEN << 92, 117 >> \o Hex4(c)
  ELSE << c >>

\* JSON.stringify of a string: the quoted, escaped literal.
Quote(str) == << 34 >> \o Concat([i \in 1..Len(str) |-> QuoteChar(str[i])]) \o << 34 >>

\* JSON.stringify of an object whose values are strings: fields is the
\* object's own properties in insertion order, each << key, value >>.
JsonStringify(fields) ==
  LET member(i) ==
        (IF i > 1 THEN << 44 >> ELSE << >>)
          \o Quote(fields[i][1]) \o << 58 >> \o Quote(fields[i][2])
  IN << 123 >> \o Concat([i \in 1..Len(fields) |-> member(i)]) \o << 125 >>

\* The property names "userId", "clientUUID" and "apiKey".
KeyUserId == << 117, 115, 101, 114, 73, 100 >>
KeyClientUUID == << 99, 108, 105, 101, 110, 116, 85, 85, 73, 68 >>
KeyApiKey == << 97, 112, 105, 75, 101, 121 >>

\* { ...n, apiKey: <credential> }: n's properties, then apiKey.
WithApiKey(n, credential) ==
  << << KeyUserId, n.userId >>, << KeyClientUUID, n.clientUUID >>,
     << KeyApiKey, credential >> >>

\* -------------------------------------------------- key derivation, cipher

RECURSIVE Weigh(_, _, _)
\* A digest of the bytes b[i..] continuing digest h, used by Pbkdf2 below.
Weigh(b, i, h) ==
  IF i > Len(b) THEN h ELSE Weigh(b, i + 1, (31 * h + b[i] + i) % 65521)

\* Byte j of the key stretched from the digests p and q of password and salt.
Stretch(p, q, iterations, j) ==
  (3 * p + 5 * q + ((p + 7 * j) % 251) * ((q + j) % 241) + iterations + 11 * j) % 256

\* The keylen bytes stretched from the digests p and q.
StretchAll(p, q, iterations, keylen) ==
  IF Evaluated(p) /\ Evaluated(q)
  THEN [j \in 1..keylen |-> Stretch(p, q, iterations, j)]
  ELSE << >>

\* Ye.pbkdf2Sync(password, salt, iterations, keylen, "sha256"), abstracted: a
\* deterministic function of password and salt to keylen bytes.
Pbkdf2(password, salt, iterations, keylen) ==
  StretchAll(Weigh(password, 1, 7), Weigh(salt, 1, 11), iterations, keylen)

\* The byte substitution of the abstract block function and its inverse
\* (167 * 23 = 1 modulo 256).
SubByte(x) == (167 * x + 13) % 256
SubByteInv(y) == (23 * (y + 243)) % 256

\* The byte transposition of the abstract block function and its inverse.
Shift(i) == ((i + 4) % Sh) + 1
ShiftInv(p) == ((p + 10) % Sh) + 1

\* The AES-256 block function, abstracted as a keyed permutation of 16-byte
\* blocks: transpose, add key, substitute, add key.
AesBlock(key, block) ==
  IF Evaluated(key) /\ Evaluated(block)
  THEN [i \in 1..Sh |-> (SubByte(Xor(block[Shift(i)], key[i])) + key[Sh + i]) % 256]
  ELSE << >>

\* Pkcs7Pad with the slip of adding no padding to block-aligned input.
Pkcs7PadUnlessAligned(b) ==
  LET pad == (Sh - (Len(b) % Sh)) % Sh IN b \o [i \in 1..pad |-> pad]

\* PKCS#7 padding applied by cipher.final(): 1..16 bytes, each the pad length,
\* a whole block when the input is block-aligned.
Pkcs7Pad(b) ==
  LET pad == Sh - (Len(b) % Sh) IN b \o [i \in 1..pad |-> pad]

RECURSIVE CbcLoop(_, _, _, _, _), CbcNext(_, _, _, _, _)
\* CBC chaining from block k on: each plaintext block is xored with the
\* previous ciphertext block (the IV for the first) and enciphered.
CbcLoop(key, prev, p, k, out) ==
  IF Sh * k > Len(p) THEN out
  ELSE CbcNext(key, AesBlock(key, XorBytes(SubSeq(p, Sh * (k - 1) + 1, Sh * k), prev)),
               p, k, out)

\* CbcNext with the slip of not chaining: every block is xored with zeros.
CbcNextUnchained(key, c, p, k, out) ==
  CbcLoop(key, [i \in 1..Sh |-> 0], p, k + 1, out \o c)

\* Ciphertext block c is output and chained into the next block.
CbcNext(key, c, p, k, out) == CbcLoop(key, c, p, k + 1, out \o c)

\* createCipheriv("aes-256-cbc", key, iv), update(text, "utf8") and final():
\* the ciphertext of the UTF-8 bytes of text.
CipherUpdateFinal(key, iv, text) == CbcLoop(key, iv, Pkcs7Pad(Utf8Encode(text)), 1, << >>)

\* --------------------------------------------------------------- issuance

\* The draws of the secure random generator the model explores, as
\* << first byte, increment >>: a run 0x00, 0x05, 0x0a, 0x0f, 0x14, ... (zero,
\* bytes below 0x10 and bytes above), a run of large bytes that wraps, and
\* all bytes 0xff.
Draws == { << 0, 5 >>, << 250, 37 >>, << 255, 0 >> }

\* The draws explored when several calls run at once.
ConcurrentDraws == { << 0, 5 >>, << 250, 37 >> }

\* The n bytes of one draw.
DrawBytes(d, n) == [i \in 1..n |-> (d[1] + (i - 1) * d[2]) % 256]

\* Ye.randomBytes(n) / crypto.getRandomValues(new Uint8Array(n)): the byte
\* sequences the generator may return, for the draws D.
RandomBytes(n, D) == { DrawBytes(d, n) : d \in D }

\* The session payloads { userId, clientUUID } explored when several calls run
\* at once: "u1" / "abcde" (the serialized text is 112 bytes, a multiple of
\* 16), and U+00E9 U+0022 (a non-ASCII character and a quote) / "".
ConcurrentPayloads ==
  { [userId |-> << 117, 49 >>, clientUUID |-> << 97, 98, 99, 100, 101 >>],
    [userId |-> << 233, 34 >>, clientUUID |-> << >>] }

\* The session payloads explored for a single call: those above, "u1" / "c1",
\* "" / "", a backslash and a line feed / a colon and U+1F600, a lone
\* surrogate / U+007F, and "0123456789abcdef" / "x".
Payloads ==
  ConcurrentPayloads \cup
  { [userId |-> << 117, 49 >>, clientUUID |-> << 99, 49 >>],
    [userId |-> << >>, clientUUID |-> << >>],
    [userId |-> << 92, 10 >>, clientUUID |-> << 58, 128512 >>],
    [userId |-> << 55357 >>, clientUUID |-> << 127 >>],
    [userId |-> << 48, 49, 50, 51, 52, 53, 54, 55, 56, 57, 97, 98, 99, 100, 101, 102 >>,
     clientUUID |-> << 120 >>] }

\* function Th(n): the key for user id n, salted with the descrambled table Hr.
Th(n, tabHr) ==
  Pbkdf2(Utf8Encode(n), Utf8Encode(Fl(tabHr.r, tabHr.m)), Iterations, KeyLen)

\* KhResult with the slip of dropping cipher.final(): the last block is lost.
KhResultNoFinal(n, e, t, tabjr) ==
  LET o == CipherUpdateFinal(e, t, JsonStringify(WithApiKey(n, Fl(tabjr.r, tabjr.m))))
  IN BufferToHex(t) \o << 58 >> \o BufferToHex(SubSeq(o, 1, Len(o) - Sh))

\* KhResult with the slip of a constant IV in place of the bytes drawn.
KhResultFixedIv(n, e, t, tabjr) ==
  LET z == [i \in 1..Sh |-> 0]
      o == CipherUpdateFinal(e, z, JsonStringify(WithApiKey(n, Fl(tabjr.r, tabjr.m))))
  IN BufferToHex(z) \o << 58 >> \o BufferToHex(o)

\* The return value of kh(n) given the key e and the IV t it drew:
\* t.toString("hex") + ":" + o.toString("hex").
KhResult(n, e, t, tabjr) ==
  LET o == CipherUpdateFinal(e, t, JsonStringify(WithApiKey(n, Fl(tabjr.r, tabjr.m))))
  IN BufferToHex(t) \o << 58 >> \o BufferToHex(o)

\* H7t with the slip of leaving out padStart.
H7tNoPad(e) == Concat([i \in 1..Len(e) |-> ToString16(e[i])])

\* function H7t(t = 12) given the random bytes e it drew:
\* [...e].map(n => n.toString(16).padStart(2, "0")).join("").
H7t(e) == Concat([i \in 1..Len(e) |-> PadStart(ToString16(e[i]), 2, 48)])

\* Identifier with the slip of writing the nonce over the head of the IV field.
IdentifierNonceInIv(nonce, t) ==
  H7t(nonce) \o << 58 >> \o H7t(nonce) \o SubSeq(t, 2 * NonceLen + 1, Len(t))

\* get_identifier's return value `${H7t()}:${t}` given the nonce bytes drawn.
Identifier(nonce, t) == H7t(nonce) \o << 58 >> \o t

\* ------------------------------------------------------------- decryption
\* The collaborator's side, which the repository does not hold: split the
\* token, hex-decode, derive the key from the known userId, decrypt in CBC
\* mode, strip and validate the PKCS#7 padding, parse the JSON text.

\* A failed operation.
Failure == [ok |-> FALSE]

\* The fields of s between the positions at of its separators.
SplitAt(s, at) ==
  LET from(k) == IF k = 1 THEN 1 ELSE at[k - 1] + 1
      to(k) == IF k > Len(at) THEN Len(s) ELSE at[k] - 1
  IN IF Evaluated(s) THEN [k \in 1..(Len(at) + 1) |-> SubSeq(s, from(k), to(k))] ELSE << >>

\* String.prototype.split(sep) for a one-character separator.
Split(s, sep) == SplitAt(s, SelectSeq([i \in 1..Len(s) |-> i], LAMBDA i : s[i] = sep))

\* The value of a hexadecimal digit, or Hole.
HexValue(c) ==
  IF c >= 48 /\ c <= 57 THEN c - 48
  ELSE IF c >= 97 /\ c <= 102 THEN c - 87
  ELSE IF c >= 65 /\ c <= 70 THEN c - 55
  ELSE Hole

\* Whether h is an even number of hexadecimal digits.
IsHex(h) == Len(h) % 2 = 0 /\ \A i \in 1..Len(h) : HexValue(h[i]) # Hole

\* The bytes a hexadecimal string encodes.
HexDecode(h) == [i \in 1..(Len(h) \div 2) |-> 16 * HexValue(h[2 * i - 1]) + HexValue(h[2 * i])]

\* The inverse of the abstract block function AesBlock under the same key.
AesBlockInv(key, c) ==
  IF Evaluated(key) /\ Evaluated(c)
  THEN [p \in 1..Sh |-> Xor(SubByteInv((c[ShiftInv(p)] + 256 - key[Sh + ShiftInv(p)]) % 256),
                            key[ShiftInv(p)])]
  ELSE << >>

\* CBC decryption: each ciphertext block is deciphered and xored with the
\* previous ciphertext block (the IV for the first).
CbcDecrypt(key, iv, c) ==
  LET blk(k) == SubSeq(c, Sh * (k - 1) + 1, Sh * k)
      plain(k) == XorBytes(AesBlockInv(key, blk(k)), IF k = 1 THEN iv ELSE blk(k - 1))
  IN IF Evaluated(key) /\ Evaluated(iv)
     THEN Concat([k \in 1..(Len(c) \div Sh) |-> plain(k)])
     ELSE << >>

\* PKCS#7 unpadding: the last byte is the pad length 1..16 and that many
\* final bytes carry it; anything else is a failure.
Pkcs7Unpad(p) ==
  IF Len(p) = 0 \/ Len(p) % Sh # 0 THEN Failure
  ELSE LET pad == p[Len(p)] IN
    IF pad < 1 \/ pad > Sh \/ \E i \in (Len(p) - pad + 1)..Len(p) : p[i] # pad
    THEN Failure
    ELSE [ok |-> TRUE, value |-> SubSeq(p, 1, Len(p) - pad)]

\* Decryption of the IV and ciphertext fields under the key for userId: the
\* plaintext bytes, or a failure (malformed fields, a ciphertext that is not
\* whole blocks, bad padding).
DecryptBytes(ivHex, ctHex, userId, tabHr) ==
  IF ~IsHex(ivHex) \/ ~IsHex(ctHex) \/ Len(ivHex) # 2 * Sh \/ Len(ctHex) % (2 * Sh) # 0
  THEN Failure
  ELSE Pkcs7Unpad(CbcDecrypt(Th(userId, tabHr), HexDecode(ivHex), HexDecode(ctHex)))

\* One step of reading a JSON string literal's body: st.i is the next
\* character, st.out the characters read, st.state "in" | "end" | "bad".
StringStep(text, st) ==
  LET c == text[st.i]
      take(x, n) == [st EXCEPT !.i = st.i + n, !.out = Append(st.out, x)]
      bad == [st EXCEPT !.state = "bad"]
      e == IF st.i < Len(text) THEN text[st.i + 1] ELSE Hole
      hex(k) == IF st.i + k <= Len(text) THEN HexValue(text[st.i + k]) ELSE Hole
  IN IF c = 34 THEN [st EXCEPT !.i = st.i + 1, !.state = "end"]
     ELSE IF c < 32 THEN bad
     ELSE IF c # 92 THEN take(c, 1)
     ELSE IF e = 34 \/ e = 92 \/ e = 47 THEN take(e, 2)
     ELSE IF e = 98 THEN take(8, 2)
     ELSE IF e = 102 THEN take(12, 2)
     ELSE IF e = 110 THEN take(10, 2)
     ELSE IF e = 114 THEN take(13, 2)
     ELSE IF e = 116 THEN take(9, 2)
     ELSE IF e = 117 /\ \A k \in 2..5 : hex(k) # Hole
       THEN take(4096 * hex(2) + 256 * hex(3) + 16 * hex(4) + hex(5), 6)
     ELSE bad

RECURSIVE StringLoop(_, _, _)
\* Up to n steps of reading a string literal's body.
StringLoop(text, n, st) ==
  IF n = 0 \/ st.state # "in" THEN st
  ELSE IF st.i > Len(text) THEN [st EXCEPT !.state = "bad"]
  ELSE StringLoop(text, n - 1, StringStep(text, st))

RECURSIVE StringChunks(_, _)
\* The steps of reading a string literal's body, to its end.
StringChunks(text, st) ==
  IF st.state # "in" THEN st ELSE StringChunks(text, StringLoop(text, Chunk, st))

\* The JSON string literal of text at position i: its value and the position
\* after it, or state "bad".
ParseString(text, i) ==
  IF i > Len(text) \/ text[i] # 34 THEN [i |-> i, out |-> << >>, state |-> "bad"]
  ELSE StringChunks(text, [i |-> i + 1, out |-> << >>, state |-> "in"])

RECURSIVE ParseMembers(_, _, _), MemberValue(_, _, _), MemberEnd(_, _, _, _)
\* The members "key":"value" of a JSON object from position i on, up to and
\* including the closing brace, which must end the text.
ParseMembers(text, i, fields) == MemberValue(text, ParseString(text, i), fields)

\* After a member's key k: the colon and the value.
MemberValue(text, k, fields) ==
  IF k.state # "end" \/ k.i > Len(text) \/ text[k.i] # 58 THEN Failure
  ELSE MemberEnd(text, k, ParseString(text, k.i + 1), fields)

\* After a member's value v: a comma and more members, or the closing brace.
MemberEnd(text, k, v, fields) ==
  IF v.state # "end" \/ v.i > Len(text) THEN Failure
  ELSE IF text[v.i] = 44 THEN ParseMembers(text, v.i + 1, Append(fields, << k.out, v.out >>))
  ELSE IF text[v.i] = 125 /\ v.i = Len(text)
    THEN [ok |-> TRUE, fields |-> Append(fields, << k.out, v.out >>)]
  ELSE Failure

\* JSON.parse of the text of an object whose values are strings.
JsonParse(text) ==
  IF Len(text) < 2 \/ text[1] # 123 THEN Failure
  ELSE IF text = << 123, 125 >> THEN [ok |-> TRUE, fields |-> << >>]
  ELSE ParseMembers(text, 2, << >>)

\* The value of property key of a parsed object (the last occurrence wins),
\* or Hole when the object has no such property.
Property(fields, key) ==
  LET at == {i \in 1..Len(fields) : fields[i][1] = key}
  IN IF at = {} THEN Hole ELSE fields[CHOOSE i \in at : \A j \in at : j <= i][2]

\* The payload a parsed object carries.
PayloadOf(obj) ==
  IF ~obj.ok THEN Failure
  ELSE [ok |-> TRUE,
        userId |-> Property(obj.fields, KeyUserId),
        clientUUID |-> Property(obj.fields, KeyClientUUID),
        apiKey |-> Property(obj.fields, KeyApiKey)]

\* The payload a decrypted plaintext carries.
ParsePlain(plain) ==
  IF plain.ok THEN PayloadOf(JsonParse(BufferToUtf8(plain.value))) ELSE Failure

\* The decrypter on the token's fields f = << iv-hex, ciphertext-hex >>.
DecryptFields(f, userId, tabHr) ==
  IF Len(f) = 2 THEN ParsePlain(DecryptBytes(f[1], f[2], userId, tabHr)) ELSE Failure

\* The decrypter of kh's output "<iv-hex>:<ciphertext-hex>": decrypt under the
\* key for userId and parse the JSON text into { userId, clientUUID, apiKey }.
DecryptToken(token, userId, tabHr) == DecryptFields(Split(token, 58), userId, tabHr)

\* The decrypter on the identifier's fields f: the first is dropped.
DecryptTail(f, userId, tabHr) ==
  IF Len(f) # 3 THEN Failure ELSE DecryptFields(Tail(f), userId, tabHr)

\* The decrypter of an identifier "<nonce-hex>:<iv-hex>:<ciphertext-hex>":
\* field 1 is ignored, fields 2 and 3 are decrypted as above.
Decrypt(identifier, userId, tabHr) == DecryptTail(Split(identifier, 58), userId, tabHr)

\* ------------------------------------------------- the forward procedure
\* How a table (r, m) is built from a secret: not part of the repository,
\* taken from the description of the descrambler's round trip.

\* The base64 character of a 6-bit value (standard alphabet).
Base64Char(v) ==
  IF v < 26 THEN 65 + v
  ELSE IF v < 52 THEN 71 + v
  ELSE IF v < 62 THEN v - 4
  ELSE IF v = 62 THEN 43
  ELSE 47

\* Standard padded base64 of a byte sequence.
Base64Encode(b) ==
  LET at(i) == IF i <= Len(b) THEN b[i] ELSE 0
      ch(j) ==
        LET g == 3 * ((j - 1) \div 4)
            k == (j - 1) % 4
        IN IF k = 0 THEN Base64Char(at(g + 1) \div 4)
           ELSE IF k = 1 THEN Base64Char((at(g + 1) % 4) * 16 + (at(g + 2) \div 16))
           ELSE IF k = 2
             THEN IF g + 2 > Len(b) THEN 61
                  ELSE Base64Char((at(g + 2) % 16) * 4 + (at(g + 3) \div 64))
           ELSE IF g + 3 > Len(b) THEN 61 ELSE Base64Char(at(g + 3) % 64)
  IN [j \in 1..(4 * ((Len(b) + 2) \div 3)) |-> ch(j)]

\* The unscrambled text of secret x: its UTF-8 bytes reversed, in base64.
Unscrambled64(x) == Base64Encode(Reverse(Utf8Encode(x)))

\* The values r of the table for text b64 under permutation m: r[s] is the
\* character at unscrambled position m[s].
Place(b64, m) == IF Evaluated(b64) THEN [s \in 1..Len(m) |-> b64[m[s] + 1]] ELSE << >>

\* The table (r, m) the forward procedure builds from secret x and permutation m.
Scramble(x, m) == [r |-> Place(Unscrambled64(x), m), m |-> m]

\* ------------------------------------------------------------------ state

VARIABLES
  Hr,     \* the salt table { r, m } of the running program
  jr,     \* the credential table { r, m } of the running program
  calls,  \* the get_identifier calls in progress: position and locals of each
  fl,     \* a descrambler run on a drawn table: the table and Fl's result
  tam     \* a tampering run: a token, the altered token, the decrypter's answer

vars == << Hr, jr, calls, fl, tam >>

\* The call slots.
Slots == 1..NCalls

\* A slot with no call in it.
Idle ==
  [pc |-> "idle", n |-> [userId |-> << >>, clientUUID |-> << >>], e |-> << >>,
   t |-> << >>, tok |-> << >>, nonce |-> << >>, result |-> << >>]

\* A run that is not part of the specification at hand.
Unused == [stage |-> "unused"]

\* The program after its constants are defined, before any call.
Init ==
  /\ Hr = HrInitial
  /\ jr = jrInitial
  /\ calls = [c \in Slots |-> Idle]
  /\ fl = Unused
  /\ tam = Unused

\* get_identifier(userId, clientUUID) is entered and calls kh with the object
\* { userId, clientUUID }.
GetIdentifier(c, P) ==
  /\ calls[c].pc = "idle"
  /\ \E n \in P : calls' = [calls EXCEPT ![c] = [Idle EXCEPT !.pc = "th", !.n = n]]
  /\ UNCHANGED << Hr, jr, fl, tam >>

\* KhTh with the slip of unscrambling the salt table in place.
KhThInPlace(c) ==
  /\ calls[c].pc = "th"
  /\ calls' = [calls EXCEPT ![c].pc = "iv", ![c].e = Th(calls[c].n.userId, Hr)]
  /\ Hr' = [Hr EXCEPT !.r = Ah(Hr.r, Hr.m)]
  /\ UNCHANGED << jr, fl, tam >>

\* kh: const e = Th(n.userId).
KhTh(c) ==
  /\ calls[c].pc = "th"
  /\ calls' = [calls EXCEPT ![c].pc = "iv", ![c].e = Th(calls[c].n.userId, Hr)]
  /\ UNCHANGED << Hr, jr, fl, tam >>

\* kh: const t = Ye.randomBytes(Sh).
KhRandomBytes(c, D) ==
  /\ calls[c].pc = "iv"
  /\ \E t \in RandomBytes(Sh, D) : calls' = [calls EXCEPT ![c].pc = "cipher", ![c].t = t]
  /\ UNCHANGED << Hr, jr, fl, tam >>

\* kh: createCipheriv, update, final, and the return of the two hex fields.
KhCipher(c) ==
  /\ calls[c].pc = "cipher"
  /\ calls' = [calls EXCEPT ![c].pc = "nonce",
                            ![c].tok = KhResult(calls[c].n, calls[c].e, calls[c].t, jr)]
  /\ UNCHANGED << Hr, jr, fl, tam >>

\* get_identifier: H7t() draws the nonce and the template string is returned.
GetIdentifierReturn(c, D) ==
  /\ calls[c].pc = "nonce"
  /\ \E e \in RandomBytes(NonceLen, D) :
       calls' = [calls EXCEPT ![c].pc = "done", ![c].nonce = e,
                              ![c].result = Identifier(e, calls[c].tok)]
  /\ UNCHANGED << Hr, jr, fl, tam >>

\* Any step of any call: the calls' steps interleave freely.
Next ==
  \E c \in Slots :
    \/ GetIdentifier(c, ConcurrentPayloads)
    \/ KhTh(c)
    \/ KhRandomBytes(c, ConcurrentDraws)
    \/ KhCipher(c)
    \/ GetIdentifierReturn(c, ConcurrentDraws)

\* ------------------------------------------------ descrambling drawn tables

\* The value arrays r drawn: "QQ==" (the secret "A"), "QUE=" ("AA"), "/w=="
\* (decodes to byte 0xff, not UTF-8), "Q!==" (an illegal base64 character),
\* 0xff "Q==" (not UTF-8), "QQ" (no padding), and the empty array.
DrawnValues ==
  { << 81, 81, 61, 61 >>, << 81, 85, 69, 61 >>, << 47, 119, 61, 61 >>,
    << 81, 33, 61, 61 >>, << 255, 81, 61, 61 >>, << 81, 81 >>, << >> }

\* The index arrays m drawn: every array of up to MaxTableLen indices, each
\* in 0..MaxTableLen (permutations, repeated indices, indices out of range).
DrawnIndices == UNION { [1..k -> 0..MaxTableLen] : k \in 0..MaxTableLen }

\* Whether m is a bijection on [0, n).
Bijection(m, n) ==
  /\ Len(m) = n
  /\ \A k \in 0..(n - 1) : Cardinality({s \in 1..Len(m) : m[s] = k}) = 1

\* A table (r, m) is drawn.
InitFl ==
  /\ Hr = HrInitial
  /\ jr = jrInitial
  /\ calls = [c \in Slots |-> Idle]
  /\ fl \in { [stage |-> "table", x |-> << >>, r |-> r, m |-> m, out |-> << >>] :
              r \in DrawnValues, m \in DrawnIndices }
  /\ tam = Unused

\* Fl(r, m) is called on the table and returns.
Descramble ==
  /\ fl.stage = "table"
  /\ fl' = [fl EXCEPT !.stage = "returned", !.out = Fl(fl.r, fl.m)]
  /\ UNCHANGED << Hr, jr, calls, tam >>

\* The descrambler on drawn tables, well-formed or not.
SpecFl == InitFl /\ [][Descramble]_vars

\* ------------------------------------------------ scrambling, descrambling

\* The characters secrets are made of: "A", U+00E9, U+20AC, U+1F600 (one to
\* four UTF-8 bytes).
SecretChars == { 65, 233, 8364, 128512 }

\* The secrets: every text of up to MaxSecretLen of these characters.
Secrets == UNION { [1..k -> SecretChars] : k \in 0..MaxSecretLen }

\* The greatest common divisor.
RECURSIVE Gcd(_, _)
Gcd(a, b) == IF b = 0 THEN a ELSE Gcd(b, a % b)

\* The permutations of [0, n) drawn: all of them up to n = 4, beyond that the
\* affine ones s -> (a * s + b) mod n (rotations, reversals, strides).
DrawnPermutations(n) ==
  IF n <= 4
  THEN { m \in [1..n -> 0..(n - 1)] : Bijection(m, n) }
  ELSE { [s \in 1..n |-> (a * (s - 1) + b) % n] :
           a \in { a \in 1..(n - 1) : Gcd(a, n) = 1 }, b \in 0..(n - 1) }

\* A secret and a permutation of the positions of its unscrambled text are drawn.
InitScramble ==
  /\ Hr = HrInitial
  /\ jr = jrInitial
  /\ calls = [c \in Slots |-> Idle]
  /\ fl \in { [stage |-> "secret", x |-> x, r |-> << >>, m |-> m, out |-> << >>] :
              x \in Secrets, m \in UNION { DrawnPermutations(4 * k) : k \in 0..(MaxSecretLen + 1) } }
  /\ Len(fl.m) = Len(Unscrambled64(fl.x))
  /\ tam = Unused

\* The forward procedure builds the table.
BuildTable ==
  /\ fl.stage = "secret"
  /\ fl' = [fl EXCEPT !.stage = "table", !.r = Scramble(fl.x, fl.m).r]
  /\ UNCHANGED << Hr, jr, calls, tam >>

\* A secret is scrambled into a table, the table descrambled.
SpecScramble == InitScramble /\ [][BuildTable \/ Descramble]_vars

\* Concurrent calls of get_identifier.
Spec == Init /\ [][Next]_vars

\* The steps of one call, over all the payloads and draws.
NextIssue ==
  \/ GetIdentifier(1, Payloads)
  \/ KhTh(1)
  \/ KhRandomBytes(1, Draws)
  \/ KhCipher(1)
  \/ GetIdentifierReturn(1, Draws)

\* One call of get_identifier, as a function of its arguments and draws.
SpecIssue == Init /\ [][NextIssue]_vars

\* ------------------------------------------------- tampering with a token

\* The one draw of the nonce explored when a token is tampered with.
NonceDraw == { << 0, 5 >> }

\* Every hexadecimal digit, of either case.
HexDigits == (48..57) \cup (97..102) \cup (65..70)

\* The plaintext bytes the decrypter recovers from the identifier's fields f.
DecryptPlain(f, userId, tabHr) ==
  IF Len(f) # 3 THEN Failure ELSE DecryptBytes(f[2], f[3], userId, tabHr)

\* The record of a tampering: the identifier with its character i replaced
\* by h, at hex position at of the ciphertext field of len hex characters,
\* and what the decrypter (same userId) makes of it.
Tampered(identifier, i, h, userId, tabHr) ==
  [stage |-> "tampered",
   at |-> i - (2 * NonceLen + 2 * Sh + 2),
   len |-> Len(identifier) - (2 * NonceLen + 2 * Sh + 2),
   identifier |-> [identifier EXCEPT ![i] = h],
   plain |-> DecryptPlain(Split([identifier EXCEPT ![i] = h], 58), userId, tabHr)]

\* One hex character of the ciphertext field of call c's identifier is
\* changed to a digit of another value, and the result is decrypted.
Tamper(c) ==
  /\ calls[c].pc = "done"
  /\ tam = Unused
  /\ \E i \in (2 * NonceLen + 2 * Sh + 3)..Len(calls[c].result), h \in HexDigits :
       /\ HexValue(h) # HexValue(calls[c].result[i])
       /\ tam' = Tampered(calls[c].result, i, h, calls[c].n.userId, Hr)
  /\ UNCHANGED << Hr, jr, calls, fl >>

\* One call, then one tampering with what it returned.
NextTamper ==
  \/ GetIdentifier(1, ConcurrentPayloads)
  \/ KhTh(1)
  \/ KhRandomBytes(1, ConcurrentDraws)
  \/ KhCipher(1)
  \/ GetIdentifierReturn(1, NonceDraw)
  \/ Tamper(1)

\* Issuance followed by a change of one character of the ciphertext field.
SpecTamper == Init /\ [][NextTamper]_vars

\* ----------------------------------------------------------------- claims

\* The calls that have returned from kh (their token t is set).
Enciphered == {c \in Slots : calls[c].pc \in {"nonce", "done"}}

\* The calls that have returned from get_identifier.
Returned == {c \in Slots : calls[c].pc = "done"}

\* Whether every character of s is a lowercase hexadecimal digit.
LowerHex(s) == \A i \in 1..Len(s) : (s[i] >= 48 /\ s[i] <= 57) \/ (s[i] >= 97 /\ s[i] <= 102)

\* The credential a decrypter expects: the descrambled second table.
Credential == Fl(jrInitial.r, jrInitial.m)

\* The serialized payload of call c as kh builds it.
Serialized(c) == Utf8Encode(JsonStringify(WithApiKey(calls[c].n, Fl(jr.r, jr.m))))

\* The payload a decrypter must recover for call c.
Expected(c) ==
  [ok |-> TRUE, userId |-> calls[c].n.userId, clientUUID |-> calls[c].n.clientUUID,
   apiKey |-> Credential]

\* Whether f is three fields, the first the 24 lowercase hex characters of
\* nonce and the second the 32 lowercase hex characters of iv.
WellFormed(f, nonce, iv) ==
  /\ Len(f) = 3
  /\ Len(f[1]) = 2 * NonceLen /\ LowerHex(f[1])
  /\ f[1] = BufferToHex(nonce)
  /\ Len(f[2]) = 2 * Sh /\ LowerHex(f[2])
  /\ f[2] = BufferToHex(iv)

\* C1: every identifier returned has exactly three colon-separated fields
\* (two ":" characters); field 1 is 24 lowercase hex characters and field 2
\* is 32 hex characters, whatever bytes were drawn, bytes below 0x10 included.
C1_Format ==
  \A c \in Returned :
    /\ Len(SelectSeq(calls[c].result, LAMBDA x : x = 58)) = 2
    /\ WellFormed(Split(calls[c].result, 58), calls[c].nonce, calls[c].t)

\* C1's case: a call returned whose nonce and IV hold a byte below 0x10.
C1_Witness ==
  \E c \in Returned :
    /\ \E i \in 1..NonceLen : calls[c].nonce[i] < 16
    /\ \E i \in 1..Sh : calls[c].t[i] < 16

\* C2: decrypting kh's output with the key derived from the same userId gives
\* back the payload's userId and clientUUID, and the descrambled credential
\* as apiKey.
C2_RoundTrip ==
  \A c \in Enciphered :
    DecryptToken(calls[c].tok, calls[c].n.userId, HrInitial) = Expected(c)

\* C2's case: kh has returned for a userId that needs JSON escaping and more
\* than one UTF-8 byte per character.
C2_Witness ==
  \E c \in Enciphered : \E i \in 1..Len(calls[c].n.userId) : calls[c].n.userId[i] = 34

\* Whether kh's output fields f carry a ciphertext of the PKCS#7 length for a
\* plaintext of L bytes.
LengthLaw(f, L) ==
  /\ Len(f) = 2
  /\ Len(f[2]) = 2 * (Sh * ((L \div Sh) + 1))
  /\ Len(f[2]) > 0
  /\ Len(f[2]) % (2 * Sh) = 0
  /\ Len(f[2]) > 2 * L

\* C10: for a serialized payload of L bytes the ciphertext is exactly
\* 16 * (floor(L / 16) + 1) bytes: field 3 is never empty, its hex length is a
\* positive multiple of 32, and it is longer than the plaintext even when L is
\* a multiple of 16.
C10_LengthLaw ==
  \A c \in Enciphered : LengthLaw(Split(calls[c].tok, 58), Len(Serialized(c)))

\* C10's case: kh has returned for a payload whose serialized text is a
\* multiple of 16 bytes long.
C10_Witness == \E c \in Enciphered : Len(Serialized(c)) % Sh = 0

\* The pairs of distinct calls that kh has returned for with the same payload.
SamePayload ==
  {p \in Enciphered \X Enciphered : p[1] # p[2] /\ calls[p[1]].n = calls[p[2]].n}

\* C3 as stated: any two kh calls with an identical payload return different
\* token strings.
C3_AlwaysDifferent == \A p \in SamePayload : calls[p[1]].tok # calls[p[2]].tok

\* Whether the fields f and g of two kh outputs differ in the IV and in the
\* ciphertext.
BothFieldsDiffer(f, g) == f[1] # g[1] /\ f[2] # g[2]

\* The plaintext bytes the decrypter recovers from kh's output fields f.
Plaintext(f, userId) == DecryptBytes(f[1], f[2], userId, HrInitial)

\* C3 as amended: two kh calls with an identical payload return different
\* token strings (different IV field, different ciphertext field) whenever
\* the IVs drawn differ, the same token when the same IV is drawn twice, and
\* both decrypt to the same plaintext, the serialized payload.
C3_FreshIv ==
  /\ \A p \in SamePayload :
       IF calls[p[1]].t # calls[p[2]].t
       THEN /\ calls[p[1]].tok # calls[p[2]].tok
            /\ BothFieldsDiffer(Split(calls[p[1]].tok, 58), Split(calls[p[2]].tok, 58))
       ELSE calls[p[1]].tok = calls[p[2]].tok
  /\ \A c \in Enciphered :
       Plaintext(Split(calls[c].tok, 58), calls[c].n.userId) =
         [ok |-> TRUE, value |-> Serialized(c)]

\* C3's case: kh has returned twice for the same payload with different IVs.
C3_Witness == \E p \in SamePayload : calls[p[1]].t # calls[p[2]].t

\* Whether t, the array Ah built from table tab, has every position written:
\* no hole is left, t is not grown, and t[m[s]] = r[s] for every s.
Unscrambled(t, tab) ==
  /\ Len(t) = Len(tab.r)
  /\ \A k \in 1..Len(t) : t[k] # Hole
  /\ \A s \in 1..Len(tab.m) : t[tab.m[s] + 1] = tab.r[s]

\* Whether r and m have equal length and m is a bijection on [0, len(r)), so
\* that Ah writes every position of t exactly once.
ScrambledConstant(tab) ==
  /\ Len(tab.m) = Len(tab.r)
  /\ \A k \in 0..(Len(tab.r) - 1) : Cardinality({s \in 1..Len(tab.m) : tab.m[s] = k}) = 1
  /\ Unscrambled(Ah(tab.r, tab.m), tab)

\* C6: both baked-in tables, Hr and jr, satisfy the ScrambledConstant
\* invariant: len(m) = len(r) and m is a bijection on [0, len(r)).
C6_Bijective == ScrambledConstant(Hr) /\ ScrambledConstant(jr)

\* C6's case: a call has descrambled both tables (Hr in Th, jr in kh).
C6_Witness == \E c \in Slots : calls[c].pc = "done"

\* C7: under any interleaving of the steps of concurrent calls the tables Hr
\* and jr keep their initial values, each call's result is the function of
\* its own arguments and draws, and it decrypts to the call's own payload.
C7_Stateless ==
  /\ Hr = HrInitial
  /\ jr = jrInitial
  /\ \A c \in Returned :
       /\ calls[c].result =
            Identifier(calls[c].nonce,
                       KhResult(calls[c].n, Th(calls[c].n.userId, HrInitial), calls[c].t,
                                jrInitial))
       /\ Decrypt(calls[c].result, calls[c].n.userId, HrInitial) = Expected(c)

\* C7's case: two calls with different payloads have both returned while a
\* step of the other was still to come.
C7_Witness ==
  \E c1, c2 \in Returned : calls[c1].n.userId # calls[c2].n.userId

\* The pairs of distinct returned calls with the same payload and the same IV.
SameButNonce ==
  {p \in Returned \X Returned :
     /\ calls[p[1]].n = calls[p[2]].n
     /\ calls[p[1]].t = calls[p[2]].t
     /\ calls[p[1]].nonce # calls[p[2]].nonce}

\* C9: the nonce takes no part in fields 2 and 3: two results that differ
\* only in the nonce drawn have identical fields 2 and 3, these are kh's
\* output, and a decrypter that ignores field 1 recovers the same payload
\* whatever field 1 holds.
C9_NonceUnbound ==
  /\ \A p \in SameButNonce :
       Tail(Split(calls[p[1]].result, 58)) = Tail(Split(calls[p[2]].result, 58))
  /\ \A c \in Returned :
       /\ Tail(Split(calls[c].result, 58)) = Split(calls[c].tok, 58)
       /\ \A e \in RandomBytes(NonceLen, ConcurrentDraws) :
            Decrypt(BufferToHex(e) \o << 58 >> \o calls[c].tok, calls[c].n.userId, HrInitial)
              = Expected(c)

\* C9's case: two calls returned that differ only in the nonce drawn.
C9_Witness == SameButNonce # {}

\* Whether the table (r, m) is malformed: m is not a bijection on
\* [0, len(r)), or the unpermuted bytes are not UTF-8, or their text is not
\* base64, or the reversed decoded bytes are not UTF-8.
Malformed(r, m) ==
  \/ ~Bijection(m, Len(r))
  \/ ~ValidUtf8(BufferFromArray(Ah(r, m)))
  \/ ~ValidBase64(BufferToUtf8(BufferFromArray(Ah(r, m))))
  \/ ~ValidUtf8(Reverse(BufferFromBase64(BufferToUtf8(BufferFromArray(Ah(r, m))))))

\* C5: descrambling a malformed table never returns a value: when Fl has
\* returned, the table was not malformed (a malformed one ends in an error).
C5_MalformedFails == fl.stage = "returned" => ~Malformed(fl.r, fl.m)

\* C8: for every secret x and every bijection m, the table (r, m) the forward
\* procedure builds is unscrambled by Ah into t with t[m[s]] = r[s], the
\* base64 text of the reversed bytes of x, and Fl(r, m) returns exactly x;
\* with m = [1, 0] over two values Ah swaps the two.
C8_RoundTrip ==
  /\ fl.stage = "returned" =>
       /\ Bijection(fl.m, Len(fl.r))
       /\ Unscrambled(Ah(fl.r, fl.m), fl)
       /\ Ah(fl.r, fl.m) = Unscrambled64(fl.x)
       /\ fl.out = fl.x
  /\ \A a \in SecretChars, b \in SecretChars : Ah(<< a, b >>, << 1, 0 >>) = << b, a >>

\* C8's case: a secret of the greatest length with a character beyond ASCII
\* has been scrambled under a permutation that is not its own inverse, and
\* descrambled.
C8_Witness ==
  /\ fl.stage = "returned"
  /\ Len(fl.x) = MaxSecretLen
  /\ \E i \in 1..Len(fl.x) : fl.x[i] > 127
  /\ \E s \in 1..Len(fl.m) : fl.m[fl.m[s] + 1] # s - 1

\* The plaintext bytes of call c's identifier as the decrypter recovers them.
Untampered(c) == DecryptPlain(Split(calls[c].result, 58), calls[c].n.userId, HrInitial)

\* C4 as stated: after any single hex character of the ciphertext field is
\* changed, decryption under the same userId fails.
C4_TamperFails == tam.stage = "tampered" => ~tam.plain.ok

\* C4 amended: after a single hex character of the ciphertext field is changed
\* to a digit of another value, decryption under the same userId never
\* returns the original plaintext: it fails on the padding or succeeds with a
\* different plaintext, and it does succeed whenever the change lies before
\* the last two ciphertext blocks.
C4_TamperNeverOriginal ==
  /\ \A c \in Returned : Untampered(c) = [ok |-> TRUE, value |-> Serialized(c)]
  /\ tam.stage = "tampered" =>
       /\ tam.plain # [ok |-> TRUE, value |-> Serialized(1)]
       /\ tam.at + 4 * Sh <= tam.len => tam.plain.ok

\* C4's case: a character of the last ciphertext block has been changed and
\* the padding check has failed.
C4_Witness == tam.stage = "tampered" /\ tam.at + 2 * Sh > tam.len /\ ~tam.plain.ok

====
